---- MODULE Spec2Model ----
(***************************************************************************)
(* Model of YuuLogger's PerformanceProfiler                                *)
(* (src/src/utils/logger/Log.formatter.ts): the active-profile registry,   *)
(* the per-name measurement store and the sampling gate.                   *)
(*                                                                         *)
(* Optional values (TypeScript `x?: T`) are sequences: <<>> is undefined   *)
(* and <<v>> is the value v.  Profile ids are the positive integers in     *)
(* allocation order (randomUUID yields a fresh id each call); 0 stands for *)
(* null.  Profiles are objects shared by reference between the active      *)
(* table and their parent's children array, so the model keeps one heap    *)
(* `profiles` indexed by id, and both the table and the children arrays    *)
(* hold ids.                                                               *)
(***************************************************************************)
EXTENDS Integers, Sequences, FiniteSets, TLC

\* ---------------------------------------------------------------- bounds
MaxObjects  == 3      \* profiles created plus measurements started
MaxTime     == 1      \* readings of performance.now() are 0..MaxTime
MaxUsage    == 0      \* resource readings are 0..MaxUsage
MaxHistory  == 3      \* entries of a history handed to the statistics
MaxLogs     == 1      \* log calls are made while fewer entries are counted
MaxInstances == 2     \* YuuLogService objects constructed
MaxServiceObjects == 2 \* profiles and measurements started through the service
MaxNodes    == 2      \* objects in a metadata graph
MaxKeys     == 2      \* keys of one metadata object
MaxStack    == 3      \* nested calls the engine's stack holds
MaxChildren == 1      \* children of a profile handed to the report
MaxRequests == 2      \* requests handed to the HTTP interceptor
MaxOutside  == 1      \* entries logged outside any request
MaxTransports == 2    \* custom transports registered at a time
MaxEmissions == 2     \* values the observable of one request emits
MaxIterators == 1     \* generators made by profileAsyncIterator
MaxCalls    == 2      \* calls of wrapped functions
RateScale   == 2      \* a rate r stands for r / RateScale; RateScale is 1.0

\* ---------------------------------------------------------------- values
None    == <<>>
Some(v) == <<v>>
NullId  == 0

Names       == {"A", "B"}
\* startProfile is called without a context, as profileFunction and the
\* other wrappers of this class call it
Contexts    == {None}
\* One reading stands for the pair process.memoryUsage(), process.cpuUsage():
\* the code always reads the two together and subtracts them field by field.
Usages      == 0..MaxUsage
Rates       == 0..RateScale
RandomDraws == 0..(RateScale - 1)       \* Math.random() is in [0, 1)
\* ids a caller may pass: null, ids handed out earlier, ids never handed out
IdArgs      == 0..(MaxObjects + 1)

OptRates == {None} \cup {Some(r) : r \in Rates}
\* YuuLogOptions.sampling as passed to setOptions: the key may be missing
\* from the options object (None) or carry a configuration whose fields are
\* each optional
SamplingConfigs ==
    [generalSamplingRate : {None},
     profileSamplingRate : {None, Some(0), Some(1)},
     alwaysLogErrors     : {None}]
OptionInputs == {None} \cup {Some(s) : s \in SamplingConfigs}

defaultSampling ==
    [generalSamplingRate |-> Some(RateScale),
     profileSamplingRate |-> Some(RateScale),
     alwaysLogErrors     |-> Some(TRUE)]

VARIABLES
    sampling,            \* this.options.sampling
    activeProfiles,      \* keys of the activeProfiles map
    profiles,            \* heap of ProfileData objects, by id
    performanceMetrics,  \* operationName -> array of PerformanceMetrics
    nextMeasure,         \* identity given to the next PerformanceMetrics object
    now,                 \* performance.now()
    last,                \* the step just taken: operation, argument, result
    instance,            \* YuuLogService.instance: 0 is undefined
    created,             \* YuuLogService objects constructed so far
    loggerOptions,       \* YuuLogService.loggerOptions (static)
    options,             \* instance.options
    enabledLogLevels,    \* instance.enabledLogLevels
    logCounter,          \* instance.logCounter
    call,                \* the service call just made and what it emitted
    heap,                \* objects reachable from a profile's metadata
    reported,            \* the ProfileData handed to createPerformanceReport
    report,              \* the createPerformanceReport call just made
    invocations,         \* calls of functions wrapped by profileFunction
    requestContext,      \* instance.requestContext
    httpOptions,         \* the options of the HttpLoggerInterceptor
    requests,            \* requests handed to HttpLoggerInterceptor.intercept
    entries,             \* structured entries handed on, with their data
    observables,         \* requests handed to PerformanceInterceptor.intercept
    iterators,           \* generators made by profileAsyncIterator
    transportManager,    \* a TransportManager built with new (the service's)
    twin,                \* a TransportManager built with create
    transportCall,       \* the call just made on both managers
    loggerLevel          \* instance.logger.level

profilerVars == <<sampling, activeProfiles, profiles, performanceMetrics,
                  nextMeasure, now, last>>
serviceVars  == <<instance, created, loggerOptions, options,
                  enabledLogLevels, logCounter, call>>
reportVars   == <<heap, reported, report>>
httpVars     == <<requestContext, httpOptions, requests, entries>>
clientVars   == <<invocations, httpVars, observables, iterators>>
\* what the profiler alone, and the service over it, leave alone
sinkVars     == <<transportManager, twin, transportCall, loggerLevel>>
aboveProfiler == <<serviceVars, reportVars, clientVars, sinkVars>>
aboveService  == <<reportVars, clientVars, sinkVars>>
\* what the steps that build or rebuild the winston logger leave alone
aboveLogger   == <<reportVars, clientVars>>
\* what a wrapped function's call leaves alone, besides the profiler
besideWrapped == <<serviceVars, reportVars, httpVars, observables, iterators,
                   sinkVars>>
vars == <<profilerVars, serviceVars, reportVars, clientVars, sinkVars>>

Allocated == DOMAIN profiles

\* objects created so far, and the bound on them
Objects == Cardinality(Allocated) + (nextMeasure - 1)

\* ------------------------------------------------------------ sampling gate
OrElse(opt, dflt) == IF opt = None THEN dflt ELSE opt[1]

shouldSampleEvent(smp, isProfile, randomValue) ==
    LET s    == IF smp = None THEN defaultSampling ELSE smp[1]
        rate == IF isProfile
                THEN OrElse(s.profileSamplingRate, RateScale)
                ELSE OrElse(s.generalSamplingRate, RateScale)
    IN  IF rate >= RateScale THEN TRUE ELSE randomValue < rate

\* ------------------------------------------------------------ constructors
NewProfile(name, ctx, usage) ==
    [operationName   |-> name,
     startTime       |-> now,
     endTime         |-> None,
     duration        |-> None,
     context         |-> ctx,
     initialUsage    |-> Some(usage),   \* metadata._initialMemory, _initialCpu
     usageDiff       |-> None,          \* memoryUsageDiff, cpuUsageDiff
     children        |-> <<>>]

\* the assignments stopProfile makes to a profile it closes at time t
Closed(p, t, endUsage) ==
    LET timed == [p EXCEPT !.endTime = Some(t),
                           !.duration = Some(t - p.startTime)]
    IN  IF p.initialUsage # None
        THEN [timed EXCEPT
                !.usageDiff    = Some(endUsage - p.initialUsage[1]),
                !.initialUsage = None]
        ELSE timed

SeqToSet(s) == {s[i] : i \in DOMAIN s}

\* the children the loop in stopProfile closes: those with endTime undefined
OpenChildren(id) ==
    {c \in SeqToSet(profiles[id].children) : profiles[c].endTime = None}

\* ---------------------------------------------------------------- actions
Tick ==
    /\ now < MaxTime
    /\ now' = now + 1
    /\ last' = [op |-> "tick", arg |-> 0, ret |-> None]
    /\ UNCHANGED <<sampling, activeProfiles, profiles, performanceMetrics,
                   nextMeasure>>

setOptions(opt) ==
    /\ sampling' = IF opt = None THEN sampling ELSE opt
    /\ last' = [op |-> "setOptions", arg |-> opt, ret |-> None]
    /\ UNCHANGED <<activeProfiles, profiles, performanceMetrics,
                   nextMeasure, now>>

\* variant: a rejected profile is still registered as a skipped placeholder
RejectedProfile_Registered(opName, arg) ==
    /\ Objects < MaxObjects
    /\ last' = [op |-> opName, arg |-> arg, ret |-> Some(NullId)]
    /\ profiles' = (Cardinality(Allocated) + 1 :>
                      NewProfile("A", None, 0)) @@ profiles
    /\ activeProfiles' = activeProfiles \cup {Cardinality(Allocated) + 1}

\* startProfile when the gate rejects: return null
RejectedProfile(opName, arg) ==
    /\ last' = [op |-> opName, arg |-> arg, ret |-> Some(NullId)]
    /\ UNCHANGED <<activeProfiles, profiles>>

\* the state change of startProfile; also the fallback of startChildProfile
StartProfileBody(opName, name, ctx, arg, randomValue, usage) ==
    IF ~shouldSampleEvent(sampling, TRUE, randomValue)
    THEN RejectedProfile(opName, arg)
    ELSE LET id == Cardinality(Allocated) + 1
         IN  /\ Objects < MaxObjects
             /\ profiles' = (id :> NewProfile(name, ctx, usage)) @@ profiles
             /\ activeProfiles' = activeProfiles \cup {id}
             /\ last' = [op |-> opName, arg |-> arg, ret |-> Some(id)]

startProfile(name, ctx, randomValue, usage) ==
    /\ StartProfileBody("startProfile", name, ctx, NullId, randomValue, usage)
    /\ UNCHANGED <<sampling, performanceMetrics, nextMeasure, now>>

\* variant: the child is put in front (unshift)
ChildrenPush_Front(children, childId) == <<childId>> \o children

ChildrenPush(children, childId) == Append(children, childId)

startChildProfile(parentId, name, randomValue, usage) ==
    /\ IF parentId \notin activeProfiles
       THEN StartProfileBody("startChildProfile", name, None, parentId,
                             randomValue, usage)
       ELSE LET childId == Cardinality(Allocated) + 1
                child   == NewProfile(name, profiles[parentId].context,
                                      usage)
            IN  /\ Objects < MaxObjects
                /\ profiles' =
                     (childId :> child) @@
                     [profiles EXCEPT ![parentId].children =
                                         ChildrenPush(@, childId)]
                /\ activeProfiles' = activeProfiles \cup {childId}
                /\ last' = [op |-> "startChildProfile", arg |-> parentId,
                            ret |-> Some(childId)]
    /\ UNCHANGED <<sampling, performanceMetrics, nextMeasure, now>>

\* variant: open children are left as they are
ForceClosed_None(id) == {}

\* variant: every profile opened after id is closed with it, as if the
\* registry kept a stack of current profiles
ForceClosed_Later(id) == {q \in activeProfiles : q > id}

\* the profiles stopProfile(id) closes besides id itself
ForceClosed(id) == OpenChildren(id)

\* variant: the profile is looked up among all profiles ever created
Found_AnyProfile(id) == id # NullId /\ id \in Allocated

\* stopProfile finds a profile to stop: id is not null and is in the table
Found(id) == id # NullId /\ id \in activeProfiles

\* variant: the closed children stay in the table
Remaining_KeepChildren(id, closing) == activeProfiles \ {id}

\* the active table after stopProfile(id) has deleted the children it closed
\* and id
Remaining(id, closing) == (activeProfiles \ closing) \ {id}

\* the children for which stopProfile(id) reads the resource usage once more
ChildReads(id) == IF Found(id) THEN ForceClosed(id) ELSE {}

stopProfile(id, endUsage, childUsage) ==
    /\ IF ~Found(id)
       THEN /\ last' = [op |-> "stopProfile", arg |-> id, ret |-> None]
            /\ UNCHANGED <<activeProfiles, profiles>>
       ELSE LET closing == ForceClosed(id)
            IN  /\ profiles' =
                     [q \in Allocated |->
                        IF q = id
                        THEN Closed(profiles[q], now, endUsage)
                        ELSE IF q \in closing
                        THEN Closed(profiles[q], now, childUsage[q])
                        ELSE profiles[q]]
                /\ activeProfiles' = Remaining(id, closing)
                /\ last' = [op |-> "stopProfile", arg |-> id, ret |-> Some(id)]
    /\ UNCHANGED <<sampling, performanceMetrics, nextMeasure, now>>

\* ------------------------------------------------------ measurement store
NewMetrics(name) ==
    [obj |-> nextMeasure, operationName |-> name, startTime |-> now,
     endTime |-> None, duration |-> None]

startMeasure(name) ==
    /\ Objects < MaxObjects
    /\ performanceMetrics' =
         IF name \in DOMAIN performanceMetrics
         THEN [performanceMetrics EXCEPT ![name] = Append(@, NewMetrics(name))]
         ELSE (name :> <<NewMetrics(name)>>) @@ performanceMetrics
    /\ nextMeasure' = nextMeasure + 1
    /\ last' = [op |-> "startMeasure", arg |-> name, ret |-> Some(nextMeasure)]
    /\ UNCHANGED <<sampling, activeProfiles, profiles, now>>

\* variant: the oldest element is taken (shift)
PopElem_First(arr) == arr[1]

\* Array.prototype.pop: the element removed and the array left
PopElem(arr) == arr[Len(arr)]
PopRest(arr) == SubSeq(arr, 1, Len(arr) - 1)

\* variant: a history is created for the unknown name (get-or-create)
NotFoundMeasure_Create(name) ==
    /\ last' = [op |-> "stopMeasure", arg |-> name, ret |-> None]
    /\ performanceMetrics' =
         IF name \in DOMAIN performanceMetrics
         THEN performanceMetrics
         ELSE (name :> <<>>) @@ performanceMetrics

\* stopMeasure when pop() yields nothing: return undefined
NotFoundMeasure(name) ==
    /\ last' = [op |-> "stopMeasure", arg |-> name, ret |-> None]
    /\ UNCHANGED performanceMetrics

stopMeasure(name) ==
    /\ IF name \notin DOMAIN performanceMetrics
          \/ performanceMetrics[name] = <<>>
       THEN NotFoundMeasure(name)
       ELSE LET metrics == PopElem(performanceMetrics[name])
            IN  /\ performanceMetrics' =
                     [performanceMetrics EXCEPT ![name] = PopRest(@)]
                /\ last' = [op |-> "stopMeasure", arg |-> name,
                            ret |-> Some([metrics EXCEPT
                                      !.endTime = Some(now),
                                      !.duration = Some(now - metrics.startTime)])]
    /\ UNCHANGED <<sampling, activeProfiles, profiles, nextMeasure, now>>

\* `if (operationName)`: undefined and the empty string are both falsy
Truthy(optName) == optName # None /\ optName[1] # ""

\* what a caller may pass to clearPerformanceMetrics
ClearArgs == {None, Some("")} \cup {Some(n) : n \in Names}

clearPerformanceMetrics(optName) ==
    /\ performanceMetrics' =
         IF Truthy(optName)
         THEN [n \in DOMAIN performanceMetrics \ {optName[1]} |->
                 performanceMetrics[n]]
         ELSE <<>>
    /\ last' = [op |-> "clearPerformanceMetrics", arg |-> optName, ret |-> None]
    /\ UNCHANGED <<sampling, activeProfiles, profiles, nextMeasure, now>>

\* ------------------------------------------------------------- statistics
\* Durations are milliseconds; a value that need not be whole (the average)
\* is the fraction num / den.  toFixed(2) keeps hundredths, rounded.
RoundDiv(a, b) == (2 * a + b) \div (2 * b)

\* LoggerUtilities.formatDuration: the unit chosen and the digits printed
formatDuration(num, den) ==
    IF num < den
    THEN [unit |-> "us", minutes |-> 0,
          hundredths |-> RoundDiv(num * 100000, den)]
    ELSE IF num < 1000 * den
    THEN [unit |-> "ms", minutes |-> 0,
          hundredths |-> RoundDiv(num * 100, den)]
    ELSE IF num < 60000 * den
    THEN [unit |-> "s", minutes |-> 0,
          hundredths |-> RoundDiv(num, 10 * den)]
    ELSE LET minutes == num \div (60000 * den)
         IN  [unit |-> "m", minutes |-> minutes,
              hundredths |-> RoundDiv(num - minutes * 60000 * den, 10 * den)]

IsCompleted(m) == m.duration # None

RECURSIVE ReduceSum(_)
\* durations.reduce((sum, d) => sum + d, 0)
ReduceSum(durations) ==
    IF durations = <<>> THEN 0
    ELSE ReduceSum(SubSeq(durations, 1, Len(durations) - 1))
           + durations[Len(durations)]

RECURSIVE MathMin(_)
MathMin(durations) ==
    IF Len(durations) = 1 THEN durations[1]
    ELSE LET rest == MathMin(Tail(durations))
         IN  IF durations[1] < rest THEN durations[1] ELSE rest

RECURSIVE MathMax(_)
MathMax(durations) ==
    IF Len(durations) = 1 THEN durations[1]
    ELSE LET rest == MathMax(Tail(durations))
         IN  IF durations[1] > rest THEN durations[1] ELSE rest

\* variant: the first duration is reported as the last measurement
LastDuration_First(durations) == durations[1]

\* durations[durations.length - 1]
LastDuration(durations) == durations[Len(durations)]

\* the value getPerformanceStats(operationName) returns for the store pm
PerformanceStats(pm, name) ==
    IF name \notin DOMAIN pm \/ pm[name] = <<>>
    THEN None
    ELSE LET completedMetrics == SelectSeq(pm[name], IsCompleted)
         IN  IF completedMetrics = <<>>
             THEN Some([operationName |-> name, count |-> 0,
                        message |-> "No completed measurements found"])
             ELSE LET durations ==
                        [i \in 1..Len(completedMetrics) |->
                            completedMetrics[i].duration[1]]
                      totalDuration == ReduceSum(durations)
                  IN  Some([operationName   |-> name,
                            count           |-> Len(completedMetrics),
                            totalDuration   |-> formatDuration(totalDuration, 1),
                            averageDuration |->
                                formatDuration(totalDuration, Len(durations)),
                            minDuration     |->
                                formatDuration(MathMin(durations), 1),
                            maxDuration     |->
                                formatDuration(MathMax(durations), 1),
                            lastMeasurement |->
                                formatDuration(LastDuration(durations), 1)])

getPerformanceStats(name) ==
    /\ last' = [op |-> "getPerformanceStats", arg |-> name,
                ret |-> PerformanceStats(performanceMetrics, name)]
    /\ UNCHANGED <<sampling, activeProfiles, profiles, performanceMetrics,
                   nextMeasure, now>>

\* ---------------------------------------------------------------- service
\* YuuLogService (src/src/services/YuuLogger.service.ts).  The variables
\* options, enabledLogLevels and logCounter are the fields of the object
\* YuuLogService.instance refers to; the profiler variables are the
\* PerformanceProfiler that object holds.
LogLevels  == {"error", "warn", "info", "verbose", "debug"}
\* Object.values(logCounter) follows the order the counters are declared in
LevelOrder == <<"error", "warn", "info", "verbose", "debug">>
\* values of options.logLevels a caller passes
LevelSets  == {{"error"}, LogLevels}
\* a LogMessage: a string, a plain object, an object that contains itself
Messages   == {"text", "object", "cyclic"}

ServiceSamplingConfigs ==
    [generalSamplingRate : {None, Some(0), Some(1)},
     profileSamplingRate : {None},
     alwaysLogErrors     : {None, Some(TRUE)}]
    \cup
    [generalSamplingRate : {None},
     profileSamplingRate : {Some(0)},
     alwaysLogErrors     : {None}]

\* a YuuLogOptions object: each key may be missing
YuuLogOptions ==
    [sampling  : {None} \cup {Some(s) : s \in ServiceSamplingConfigs},
     logLevels : {None} \cup {Some(l) : l \in LevelSets}]

defaultOptions ==
    [sampling  |-> Some(defaultSampling),
     logLevels |-> Some({"error", "warn", "info"})]

\* { ...a, ...b }: the keys b has replace those of a
Spread(a, b) == [k \in DOMAIN a |-> IF b[k] # None THEN b[k] ELSE a[k]]

ZeroCounter == [l \in LogLevels |-> 0]

\* Object.values(this.logCounter).reduce((sum, count) => sum + count, 0)
TotalLogs(counter) ==
    ReduceSum([i \in 1..Len(LevelOrder) |-> counter[LevelOrder[i]]])

isLevelEnabled(level) == level \in enabledLogLevels

\* variant: the error override is ignored
YuuLogService_shouldSampleEvent_NoOverride(smp, level, isProfile, randomValue) ==
    shouldSampleEvent(smp, isProfile, randomValue)

YuuLogService_shouldSampleEvent(smp, level, isProfile, randomValue) ==
    LET s    == IF smp = None THEN defaultSampling ELSE smp[1]
        rate == IF isProfile
                THEN OrElse(s.profileSamplingRate, RateScale)
                ELSE OrElse(s.generalSamplingRate, RateScale)
    IN  IF level = "error" /\ OrElse(s.alwaysLogErrors, FALSE)
        THEN TRUE
        ELSE IF rate >= RateScale THEN TRUE ELSE randomValue < rate

\* JSON.stringify(message) raises a TypeError on a circular structure
Stringifies(msg) == msg # "cyclic"

\* what a handler has done so far: the counters, the entries handed to
\* this.logger (by level, in order), whether an exception left the handler
Quiet == [logCounter |-> logCounter, forwarded |-> <<>>, raised |-> FALSE]

\* the body shared by log, error, warn, debug, verbose and structured
LogMethod(st, level, msg, randomValue) ==
    IF ~isLevelEnabled(level)
       \/ ~YuuLogService_shouldSampleEvent(options.sampling, level,
                                           FALSE, randomValue)
    THEN st
    ELSE LET counted == [st EXCEPT !.logCounter[level] = @ + 1]
         IN  IF msg = "text" \/ Stringifies(msg)
             THEN [counted EXCEPT !.forwarded = Append(@, level)]
             ELSE [counted EXCEPT !.raised = TRUE]

NoCall(op) ==
    [op |-> op, arg |-> None, level |-> "", msg |-> "", draws |-> <<>>,
     forwarded |-> <<>>, raised |-> FALSE, ret |-> None]

\* a call of one of the logging methods
LogAction(op, level, msg, randomValue) ==
    /\ instance # 0
    /\ TotalLogs(logCounter) < MaxLogs
    /\ LET st == LogMethod(Quiet, level, msg, randomValue)
       IN  /\ logCounter' = st.logCounter
           /\ call' = [NoCall(op) EXCEPT !.level = level, !.msg = msg,
                                         !.draws = <<randomValue>>,
                                         !.forwarded = st.forwarded,
                                         !.raised = st.raised]
    /\ UNCHANGED <<instance, created, loggerOptions, options,
                   enabledLogLevels>>
    /\ UNCHANGED profilerVars

log(msg, randomValue)     == LogAction("log", "info", msg, randomValue)
error(msg, randomValue)   == LogAction("error", "error", msg, randomValue)
warn(msg, randomValue)    == LogAction("warn", "warn", msg, randomValue)
debug(msg, randomValue)   == LogAction("debug", "debug", msg, randomValue)
verbose(msg, randomValue) == LogAction("verbose", "verbose", msg, randomValue)
\* structured takes a string message
structured(level, randomValue) ==
    LogAction("structured", level, "text", randomValue)

getLogStats ==
    /\ instance # 0
    /\ call' = [NoCall("getLogStats") EXCEPT !.ret =
                  Some([totalLogs |-> TotalLogs(logCounter),
                        byLevel |-> logCounter,
                        activeProfiles |-> Cardinality(activeProfiles),
                        performanceMetrics |->
                          [n \in {m \in DOMAIN performanceMetrics :
                                    PerformanceStats(performanceMetrics, m)
                                      # None} |->
                             PerformanceStats(performanceMetrics, n)[1]]])]
    /\ UNCHANGED <<instance, created, loggerOptions, options,
                   enabledLogLevels, logCounter>>
    /\ UNCHANGED profilerVars

resetLogCounters ==
    /\ instance # 0
    /\ logCounter' = ZeroCounter
    /\ call' = NoCall("resetLogCounters")
    /\ UNCHANGED <<instance, created, loggerOptions, options,
                   enabledLogLevels>>
    /\ UNCHANGED profilerVars

\* ------------------------------------------------------------- transports
\* TransportManager (src/unnamed/part_006).  A transport is described by
\* its kind, what names it (a file name, the custom transport object) and
\* its level.  The list the manager hands out is a sequence of transports.
\* LOG_LEVEL_PRIORITY: a higher number is a higher priority
LOG_LEVEL_PRIORITY ==
    [error |-> 5, warn |-> 4, info |-> 3, verbose |-> 2, debug |-> 1]

\* the options a manager reads: logLevels, enableFileLogging and whether
\* logtail is configured with a token and an endpoint
TransportOptions ==
    [logLevels         : {None, Some(LogLevels)},
     enableFileLogging : {None, Some(TRUE), Some(FALSE)},
     logtail           : {None, Some(TRUE)}]
EmptyOptions ==
    [logLevels |-> None, enableFileLogging |-> None, logtail |-> None]
\* the instance field defaultOptions
TransportManager_defaultOptions ==
    [logLevels |-> Some({"error", "warn", "info"}),
     enableFileLogging |-> Some(FALSE), logtail |-> None]
\* what create() takes when no options are passed
CreateFallbackOptions ==
    [logLevels |-> Some({"error", "warn", "info"}),
     enableFileLogging |-> None, logtail |-> None]

\* a FileTransportConfig, by its filename (the other keys are handled the
\* same way)
FileTransportConfigs == [filename : {None, Some("app.log")}]
fileTransportConfig      == [filename |-> Some("logs/application-%DATE%.log")]
errorFileTransportConfig == [filename |-> Some("logs/error-%DATE%.log")]

\* { ...cfg, ...config } where cfg may be undefined
SpreadConfig(cfg, config) ==
    IF cfg = None THEN config ELSE Spread(cfg[1], config)

\* winston transport objects a caller registers, and the names it gives
CustomTransports == {"t1", "t2"}
TransportNames   == {None, Some(""), Some("dummy")}
\* `transport-${crypto.randomUUID()}`
GeneratedNames == {"transport-uuid-1", "transport-uuid-2"}

Transport(kind, name, level) == [kind |-> kind, name |-> name, level |-> level]

\* the state of a manager after new TransportManager(options)
TransportManager_new(opts) ==
    LET o == Spread(TransportManager_defaultOptions,
                    IF opts = None THEN EmptyOptions ELSE opts[1])
    IN  [options |-> o,
         enabledLogLevels |->
             OrElse(o.logLevels,
                    TransportManager_defaultOptions.logLevels[1]),
         logtail |-> o.logtail # None,
         fileTransportConfig |-> Some(fileTransportConfig),
         errorFileTransportConfig |-> Some(errorFileTransportConfig),
         customTransports |-> <<>>,
         activeTransports |-> Some(<<>>),
         needsTransportRefresh |-> Some(TRUE)]

\* the state of a manager after TransportManager.create(options): the
\* object is made by Object.create(prototype), so the field initialisers
\* of the class have not run
TransportManager_create(opts) ==
    LET o == IF opts = None THEN CreateFallbackOptions ELSE opts[1]
    IN  [options |-> o,
         enabledLogLevels |-> OrElse(o.logLevels, {"error", "warn", "info"}),
         logtail |-> o.logtail # None,
         fileTransportConfig |-> None,
         errorFileTransportConfig |-> None,
         customTransports |-> <<>>,
         activeTransports |-> None,
         needsTransportRefresh |-> None]

\* the enabled level of the lowest priority; "error" when there is none
getMinLogLevel(m) ==
    CHOOSE l \in m.enabledLogLevels \cup {"error"} :
       \A k \in m.enabledLogLevels \cup {"error"} :
          LOG_LEVEL_PRIORITY[l] <= LOG_LEVEL_PRIORITY[k]

\* what a call on a manager gives: the manager afterwards, the value
\* returned (None: undefined) and whether a TypeError was raised instead
Returned(m, ret) == [m |-> m, ret |-> ret, raised |-> FALSE]
Raised(m)        == [m |-> m, ret |-> None, raised |-> TRUE]

\* reading this.fileTransportConfig.format raises when the field is
\* undefined
getFileTransports(m, minLogLevel) ==
    IF m.options.enableFileLogging # Some(TRUE) THEN Returned(m, Some(<<>>))
    ELSE IF m.fileTransportConfig = None \/ m.errorFileTransportConfig = None
    THEN Raised(m)
    ELSE Returned(m, Some(
           <<Transport("file",
                OrElse(m.fileTransportConfig[1].filename,
                       "logs/application-%DATE%.log"), minLogLevel),
             Transport("file",
                OrElse(m.errorFileTransportConfig[1].filename,
                       "logs/error-%DATE%.log"), "error")>>))

getExternalTransports(m, minLogLevel) ==
    IF ~m.logtail THEN <<>>
    ELSE <<Transport("logtail", "", minLogLevel),
           Transport("logtail", "", "error")>>

\* the Map customTransports as the sequence of its entries, in insertion
\* order
Keys(map)      == {map[i][1] : i \in DOMAIN map}
MapValues(map) == [i \in DOMAIN map |-> map[i][2]]
MapSet(map, key, value) ==
    IF key \in Keys(map)
    THEN [i \in DOMAIN map |->
            IF map[i][1] = key THEN <<key, value>> ELSE map[i]]
    ELSE Append(map, <<key, value>>)
MapDelete(map, key) == SelectSeq(map, LAMBDA e : e[1] # key)

initializeTransports(m) ==
    LET minLogLevel    == getMinLogLevel(m)
        fileTransports == getFileTransports(m, minLogLevel)
        logTransports  ==
            <<Transport("console", "", "")>>
            \o fileTransports.ret[1]
            \o getExternalTransports(m, minLogLevel)
            \o [i \in DOMAIN m.customTransports |->
                  Transport("custom", MapValues(m.customTransports)[i], "")]
    IN  IF fileTransports.raised THEN Raised(m)
        ELSE Returned([m EXCEPT !.activeTransports = Some(logTransports),
                                !.needsTransportRefresh = Some(FALSE)],
                      Some(logTransports))

\* `if (this.needsTransportRefresh)`: undefined and false are falsy
getActiveTransports(m) ==
    IF m.needsTransportRefresh = Some(TRUE)
    THEN initializeTransports(m)
    ELSE Returned(m, m.activeTransports)

configureFileTransport(m, config) ==
    Returned([m EXCEPT
                !.fileTransportConfig =
                    Some(SpreadConfig(m.fileTransportConfig, config)),
                !.needsTransportRefresh = Some(TRUE)], None)

configureErrorFileTransport(m, config) ==
    Returned([m EXCEPT
                !.errorFileTransportConfig =
                    Some(SpreadConfig(m.errorFileTransportConfig, config)),
                !.needsTransportRefresh = Some(TRUE)], None)

\* config.name || `transport-${crypto.randomUUID()}`
addCustomTransport(m, optName, transport, uuid) ==
    LET name == IF Truthy(optName) THEN optName[1] ELSE uuid
    IN  Returned([m EXCEPT
                    !.customTransports = MapSet(@, name, transport),
                    !.needsTransportRefresh = Some(TRUE)], Some(name))

removeCustomTransport(m, transportName) ==
    LET removed == transportName \in Keys(m.customTransports)
    IN  Returned([m EXCEPT
                    !.customTransports = MapDelete(@, transportName),
                    !.needsTransportRefresh =
                        IF removed THEN Some(TRUE) ELSE @],
                 Some(removed))

\* no manager is under study and none has been called
NoTransportCall ==
    [op |-> "none", ret |-> None, raised |-> FALSE,
     twinRet |-> None, twinRaised |-> FALSE]

\* one call made on the manager built with new and on the one built with
\* create
OnBoth(op, r, t) ==
    /\ transportManager' = Some(r.m)
    /\ twin' = Some(t.m)
    /\ transportCall' = [op |-> op, ret |-> r.ret, raised |-> r.raised,
                         twinRet |-> t.ret, twinRaised |-> t.raised]
    /\ UNCHANGED loggerLevel

\* the names either manager has registered
Registered ==
    Keys(transportManager[1].customTransports)
       \cup Keys(twin[1].customTransports)

Call_getActiveTransports ==
    OnBoth("getActiveTransports", getActiveTransports(transportManager[1]),
           getActiveTransports(twin[1]))
Call_getFileTransports ==
    OnBoth("getFileTransports",
           getFileTransports(transportManager[1],
                             getMinLogLevel(transportManager[1])),
           getFileTransports(twin[1], getMinLogLevel(twin[1])))
Call_configureFileTransport(config) ==
    OnBoth("configureFileTransport",
           configureFileTransport(transportManager[1], config),
           configureFileTransport(twin[1], config))
Call_configureErrorFileTransport(config) ==
    OnBoth("configureErrorFileTransport",
           configureErrorFileTransport(transportManager[1], config),
           configureErrorFileTransport(twin[1], config))
Call_addCustomTransport(optName, transport, uuid) ==
    /\ uuid \notin Registered
    /\ Cardinality(Registered \cup {IF Truthy(optName) THEN optName[1]
                                    ELSE uuid}) <= MaxTransports
    /\ OnBoth("addCustomTransport",
              addCustomTransport(transportManager[1], optName, transport,
                                 uuid),
              addCustomTransport(twin[1], optName, transport, uuid))
Call_removeCustomTransport(transportName) ==
    OnBoth("removeCustomTransport",
           removeCustomTransport(transportManager[1], transportName),
           removeCustomTransport(twin[1], transportName))

\* winston hands an entry to the transports when its level is at least as
\* severe as the logger's level
Accepts(level, entryLevel) ==
    LOG_LEVEL_PRIORITY[entryLevel] >= LOG_LEVEL_PRIORITY[level]

\* the keys of a YuuLogOptions object the transport manager reads
ReadBy(opts) == [EmptyOptions EXCEPT !.logLevels = opts.logLevels]

\* no service object, so no transport manager and no winston logger
NoSink ==
    /\ transportManager = None
    /\ twin = None
    /\ transportCall = NoTransportCall
    /\ loggerLevel = ""

\* the manager and the logger of a service just constructed with opts
SinkOf(opts) ==
    /\ transportManager = Some(TransportManager_new(Some(ReadBy(opts))))
    /\ twin = None
    /\ transportCall = NoTransportCall
    /\ loggerLevel = getMinLogLevel(transportManager[1])

\* ------------------------------------------------------ service, continued
\* the constructor body, run on the profiler and on the transport manager
\* handed to it, which were built from the same options
Construct(opts) ==
    /\ created < MaxInstances
    /\ created' = created + 1
    /\ options' = Spread(defaultOptions, opts)
    /\ setOptions(options'.sampling)
    /\ enabledLogLevels' = IF options'.logLevels # None
                           THEN options'.logLevels[1]
                           ELSE defaultOptions.logLevels[1]
    /\ logCounter' = ZeroCounter
    /\ instance' = created + 1
    /\ transportManager' = Some(TransportManager_new(Some(ReadBy(opts))))
    /\ loggerLevel' = getMinLogLevel(transportManager'[1])
    /\ UNCHANGED <<twin, transportCall>>

\* new YuuLogService(options, ...), as the container or a test does it
constructor(opts) ==
    /\ Construct(opts)
    /\ call' = [NoCall("constructor") EXCEPT !.arg = Some(opts),
                                              !.ret = Some(created + 1)]
    /\ UNCHANGED loggerOptions

getLogger ==
    IF instance = 0
    THEN /\ Construct(loggerOptions)
         /\ call' = [NoCall("getLogger") EXCEPT !.ret = Some(instance')]
         /\ UNCHANGED loggerOptions
    ELSE /\ call' = [NoCall("getLogger") EXCEPT !.ret = Some(instance)]
         /\ UNCHANGED <<instance, created, loggerOptions, options,
                        enabledLogLevels, logCounter>>
         /\ UNCHANGED profilerVars
         /\ UNCHANGED sinkVars

\* createLogger({level: minLogLevel, transports: getActiveTransports()}),
\* both asked of the transport manager
reinitializeLogger ==
    /\ loggerLevel' = getMinLogLevel(transportManager[1])
    /\ transportManager' =
          Some(getActiveTransports(transportManager[1]).m)

\* variant: the instance keeps the options it was constructed with
Configured_Stale(opts) == options

\* instance.options after configure(opts)
Configured(opts) == Spread(options, opts)

configure(opts) ==
    /\ loggerOptions' = Spread(loggerOptions, opts)
    /\ IF instance # 0
       THEN /\ options' = Configured(opts)
            /\ setOptions(options'.sampling)
            /\ enabledLogLevels' = IF opts.logLevels # None
                                   THEN opts.logLevels[1]
                                   ELSE enabledLogLevels
            /\ reinitializeLogger
       ELSE UNCHANGED <<options, enabledLogLevels, profilerVars,
                        transportManager, loggerLevel>>
    /\ call' = [NoCall("configure") EXCEPT !.arg = Some(opts)]
    /\ UNCHANGED <<instance, created, logCounter, twin, transportCall>>

\* `metrics.duration` as a condition: undefined and 0 are falsy
TruthyNumber(x) == x # None /\ x[1] # 0

YuuLogService_startMeasure(name, randomValue) ==
    /\ instance # 0
    /\ TotalLogs(logCounter) < MaxLogs
    /\ startMeasure(name)
    /\ LET st == IF isLevelEnabled("debug")
                 THEN LogMethod(Quiet, "debug", "text", randomValue)
                 ELSE Quiet
       IN  /\ logCounter' = st.logCounter
           /\ call' = [NoCall("startMeasure") EXCEPT
                         !.arg = Some(name), !.draws = <<randomValue>>,
                         !.forwarded = st.forwarded, !.ret = last'.ret]
    /\ UNCHANGED <<instance, created, loggerOptions, options,
                   enabledLogLevels>>

\* this.warn(`No active ... found ...`) of stopMeasure and stopProfile
MissingWarned(st, randomValue) == LogMethod(st, "warn", "text", randomValue)

YuuLogService_stopMeasure(name, logResults, randomValue, randomValue2) ==
    /\ instance # 0
    /\ TotalLogs(logCounter) < MaxLogs
    /\ stopMeasure(name)
    /\ LET metrics == last'.ret
           logged  == LogMethod(Quiet, "info", "text", randomValue)
           st == IF metrics = None
                 THEN MissingWarned(Quiet, randomValue)
                 ELSE IF logResults /\ isLevelEnabled("info")
                         /\ TruthyNumber(metrics[1].duration)
                 THEN IF isLevelEnabled("debug")
                      THEN LogMethod(logged, "debug", "text", randomValue2)
                      ELSE logged
                 ELSE Quiet
       IN  /\ logCounter' = st.logCounter
           /\ call' = [NoCall("stopMeasure") EXCEPT
                         !.arg = Some(name),
                         !.draws = <<randomValue, randomValue2>>,
                         !.forwarded = st.forwarded, !.ret = metrics]
    /\ UNCHANGED <<instance, created, loggerOptions, options,
                   enabledLogLevels>>

YuuLogService_startProfile(name, ctx, profileRandom, usage, randomValue) ==
    /\ instance # 0
    /\ TotalLogs(logCounter) < MaxLogs
    /\ startProfile(name, ctx, profileRandom, usage)
    /\ LET id == last'.ret[1]
           st == IF id # NullId /\ isLevelEnabled("debug")
                 THEN LogMethod(Quiet, "debug", "text", randomValue)
                 ELSE Quiet
       IN  /\ logCounter' = st.logCounter
           /\ call' = [NoCall("startProfile") EXCEPT
                         !.arg = Some(name),
                         !.draws = <<profileRandom, randomValue>>,
                         !.forwarded = st.forwarded, !.ret = Some(id)]
    /\ UNCHANGED <<instance, created, loggerOptions, options,
                   enabledLogLevels>>

YuuLogService_stopProfile(id, logResults, endUsage, childUsage, randomValue) ==
    /\ instance # 0
    /\ TotalLogs(logCounter) < MaxLogs
    /\ IF id = NullId
       THEN /\ call' = [NoCall("stopProfile") EXCEPT !.arg = Some(id)]
            /\ UNCHANGED logCounter
            /\ UNCHANGED profilerVars
       ELSE /\ stopProfile(id, endUsage, childUsage)
            /\ LET profile == last'.ret
                   st == IF profile = None
                         THEN MissingWarned(Quiet, randomValue)
                         ELSE IF logResults /\ isLevelEnabled("info")
                         THEN LogMethod(Quiet, "info", "text", randomValue)
                         ELSE Quiet
               IN  /\ logCounter' = st.logCounter
                   /\ call' = [NoCall("stopProfile") EXCEPT
                                 !.arg = Some(id),
                                 !.draws = <<randomValue>>,
                                 !.forwarded = st.forwarded,
                                 !.ret = profile]
    /\ UNCHANGED <<instance, created, loggerOptions, options,
                   enabledLogLevels>>

\* ------------------------------------------------------------------ report
\* LoggerUtilities.createPerformanceReport (src/unnamed/part_006).  A
\* metadata object is its Object.entries in order; a value is null, a
\* primitive, another object, an empty array, an array of primitives, or an
\* array holding one object.  heap[1] is profile.metadata; the empty heap is
\* a profile without metadata.
Nodes == 1..MaxNodes
Values ==
    [kind : {"null", "primitive", "emptyArray", "simpleArray"}, ref : {0}]
    \cup [kind : {"object", "objectArray"}, ref : Nodes]
MetadataObjects == UNION {[1..n -> Values] : n \in 0..MaxKeys}
Heaps == {<<>>} \cup [Nodes -> MetadataObjects]

RangeError == [raised |-> TRUE, lines |-> <<>>]
Text(lines) == [raised |-> FALSE, lines |-> lines]
\* `head` followed by the text `rest`, unless computing `rest` raised
Then(head, rest) ==
    IF rest.raised THEN RangeError ELSE Text(head \o rest.lines)

RECURSIVE formatMetadata(_, _, _, _)
RECURSIVE FormatEntries(_, _, _, _, _)

\* the entries i.. of an object, each formatted and joined
FormatEntries(h, node, level, depth, i) ==
    IF i > Len(h[node]) THEN Text(<<>>)
    ELSE LET value == h[node][i]
             line  == <<[level |-> level, kind |-> value.kind]>>
             this  ==
               IF value.kind = "object"
               THEN Then(line, formatMetadata(h, value.ref,
                                              level + 1, depth + 1))
               ELSE IF value.kind = "objectArray"
               THEN Then(line \o <<[level |-> level + 1, kind |-> "item"]>>,
                         formatMetadata(h, value.ref,
                                        level + 2, depth + 1))
               ELSE Text(line)
         IN  IF this.raised THEN RangeError
             ELSE Then(this.lines,
                       FormatEntries(h, node, level, depth, i + 1))

\* formatMetadata(metadata, level), called with `depth` calls of it
\* already on the stack: beyond the stack's size the engine raises
formatMetadata(h, node, level, depth) ==
    IF depth > MaxStack THEN RangeError
    ELSE FormatEntries(h, node, level, depth, 1)

\* the duration and the children of a profile handed to the report: a
\* duration is absent, or a number of milliseconds, 0 among them
ReportDurations == {None, Some(0), Some(2)}
ReportedProfiles ==
    [duration : ReportDurations,
     children : UNION {[1..n -> [duration : ReportDurations]] :
                          n \in 0..MaxChildren}]
NoProfile == [duration |-> None, children |-> <<>>]

\* `profile.duration ? formatDuration(profile.duration) : "[In Progress]"`:
\* None is the in-progress marker
DurationText(duration) ==
    IF TruthyNumber(duration)
    THEN Some(formatDuration(duration[1], 1))
    ELSE None

NoReport ==
    [op |-> "new", raised |-> FALSE, durationText |-> None,
     childDurations |-> <<>>, metadataSection |-> <<>>]

createPerformanceReport ==
    /\ LET section == IF heap # <<>> /\ Len(heap[1]) > 0
                      THEN formatMetadata(heap, 1, 0, 1)
                      ELSE Text(<<>>)
       IN  report' = [op |-> "createPerformanceReport",
                      raised |-> section.raised,
                      durationText |-> DurationText(reported.duration),
                      childDurations |->
                        [i \in DOMAIN reported.children |->
                           DurationText(reported.children[i].duration)],
                      metadataSection |-> section.lines]
    /\ UNCHANGED <<heap, reported>>
    /\ UNCHANGED <<profilerVars, serviceVars, clientVars, sinkVars>>

\* ---------------------------------------------------------------- clients
\* Code that drives the profiler and the service on behalf of a caller.
\* profileFunction and profileAsyncFunction.  The wrapped function is
\* "sync" (profileFunction, a plain result), "promise" (profileFunction, the
\* result is a Promise) or "async" (profileAsyncFunction): it ends by
\* returning or throwing, or its promise is resolved or rejected.
WrappedKinds == {"sync", "promise", "async"}
Outcomes(kind) ==
    IF kind = "sync" THEN {"returned", "thrown"}
    ELSE {"resolved", "rejected"}
\* what the wrapped function yields: a value or an error
YieldOf(outcome) ==
    IF outcome \in {"returned", "resolved"} THEN "value" ELSE "error"

\* a synchronous call runs to completion: nothing else runs meanwhile
Running(i) == invocations[i].pc = "running"
SyncRunning ==
    \E i \in DOMAIN invocations : Running(i) /\ invocations[i].kind = "sync"

\* the wrapper is entered: startProfile(name), then fn(...args) is called
Invoke(kind, name, randomValue, usage) ==
    /\ ~SyncRunning
    /\ Len(invocations) < MaxCalls
    /\ startProfile(name, None, randomValue, usage)
    /\ invocations' = Append(invocations,
          [kind |-> kind, pc |-> "running", profileId |-> last'.ret[1],
           before |-> activeProfiles, outcome |-> None,
           delivered |-> None])

\* variant: the profile is stopped on the success path only
StopsOn_SuccessOnly(kind, outcome) == outcome \in {"returned", "resolved"}

\* the paths on which the wrapper calls stopProfile(profileId)
StopsOn(kind, outcome) == TRUE

\* fn has ended with `outcome`: the wrapper stops the profile and hands the
\* result on, or throws the error again
Complete(i, outcome, endUsage, childUsage) ==
    /\ i \in DOMAIN invocations
    /\ Running(i)
    /\ SyncRunning => invocations[i].kind = "sync"
    /\ outcome \in Outcomes(invocations[i].kind)
    /\ IF StopsOn(invocations[i].kind, outcome)
       THEN stopProfile(invocations[i].profileId, endUsage, childUsage)
       ELSE /\ last' = [op |-> "none", arg |-> 0, ret |-> None]
            /\ UNCHANGED <<sampling, activeProfiles, profiles,
                           performanceMetrics, nextMeasure, now>>
    /\ invocations' = [invocations EXCEPT
          ![i].pc = "done",
          ![i].outcome = Some(outcome),
          ![i].delivered = Some(YieldOf(outcome))]

\* HttpLoggerInterceptor.  Its logger is YuuLogService.getLogger(): the one
\* service object, whose requestContext field all requests share.  The
\* context is modelled by the correlationId it holds: None is {}.
HttpLoggerOptions ==
    [logAllRequests : BOOLEAN, logErrors : BOOLEAN,
     enableCorrelationId : BOOLEAN]
DEFAULT_OPTIONS ==
    [logAllRequests |-> TRUE, logErrors |-> TRUE,
     enableCorrelationId |-> TRUE]

\* randomUUID() while the n-th request is intercepted: a fresh identifier
UuidNames == <<"uuid-1", "uuid-2", "uuid-3", "uuid-4">>
randomUUID(n) == UuidNames[n]

\* the X-Correlation-ID header of a request: missing, blank or a value
HeaderValues == {None, Some(""), Some("h1")}
\* request.correlationId as set before the interceptor runs
ExistingIds == {None, Some("r1")}

getCorrelationId(opts, header, existing, n) ==
    IF ~opts.enableCorrelationId THEN randomUUID(n)
    ELSE IF Truthy(header) THEN header[1]
    ELSE IF Truthy(existing) THEN existing[1]
    ELSE randomUUID(n)

\* the response object when the handler has emitted: its statusCode, its
\* raw.statusCode (Fastify) and what its getStatus() returns
Responses ==
    [statusCode    : {None, Some(0), Some(200), Some(302), Some(404),
                      Some(500)},
     rawStatusCode : {None, Some(201)},
     getStatus     : {None, Some(503)}]

getStatusCode(response) ==
    IF TruthyNumber(response.statusCode) THEN response.statusCode[1]
    ELSE IF TruthyNumber(response.rawStatusCode)
    THEN response.rawStatusCode[1]
    ELSE IF response.getStatus # None THEN response.getStatus[1]
    ELSE 200

\* the error a handler raises: an HttpException with its status, or an
\* Error that may carry a numeric status or statusCode
Errors ==
    [httpException : {None, Some(404), Some(500)},
     status        : {None, Some(400)},
     statusCode    : {None, Some(502)}]

getErrorStatusCode(err) ==
    IF err.httpException # None THEN err.httpException[1]
    ELSE IF err.status # None THEN err.status[1]
    ELSE IF err.statusCode # None THEN err.statusCode[1]
    ELSE 500

\* the level the tap's next handler logs a response at
ResponseLevel(statusCode) ==
    IF statusCode >= 400 /\ statusCode < 500 THEN "warn" ELSE "info"

\* requests the interceptor has tapped and whose handler has not ended
InFlight ==
    {n \in DOMAIN requests : requests[n].tapped /\ requests[n].pc = "handling"}

\* a StructuredLogEntry as far as the interceptor fills it: who it is about
\* (0: no request), the data's correlationId and statusCode, and
\* data.requestContext
StructuredEntry(level, kind, n, correlationId, statusCode, ctx, during) ==
    [level |-> level, kind |-> kind, request |-> n,
     correlationId |-> correlationId, statusCode |-> statusCode,
     requestContext |-> ctx, during |-> during]

\* this.structured(level, message, context, data), called when `enabled`:
\* the entry is handed on if the level and sampling gates admit it
structuredWith(enabled, level, randomValue, entry) ==
    LET st == IF enabled
              THEN LogMethod(Quiet, level, "text", randomValue)
              ELSE Quiet
    IN  /\ logCounter' = st.logCounter
        /\ entries' = entries \o [k \in 1..Len(st.forwarded) |-> entry]
        /\ call' = [NoCall("structured") EXCEPT
                      !.level = level, !.msg = "text",
                      !.draws = <<randomValue>>,
                      !.forwarded = st.forwarded]

\* intercept(context, next) up to the return of the piped observable: a
\* context that is not HTTP, or an excluded path, is handed to the handler
\* untouched; otherwise the correlationId is put into the logger's request
\* context and the request is logged
intercept(isHttp, excluded, header, existing, randomValue) ==
    /\ instance # 0
    /\ Len(requests) < MaxRequests
    /\ LET n == Len(requests) + 1
           correlationId ==
               getCorrelationId(httpOptions, header, existing, n)
       IN  IF ~isHttp \/ excluded
           THEN /\ requests' = Append(requests,
                     [correlationId |-> None, tapped |-> FALSE,
                      pc |-> "handling"])
                /\ UNCHANGED <<requestContext, entries, logCounter, call>>
           ELSE /\ requestContext' = Some(correlationId)
                /\ structuredWith(httpOptions.logAllRequests, "info",
                      randomValue,
                      StructuredEntry("info", "request", n,
                          Some(correlationId), None, requestContext',
                          InFlight \cup {n}))
                /\ requests' = Append(requests,
                     [correlationId |-> Some(correlationId),
                      tapped |-> TRUE, pc |-> "handling"])
    /\ UNCHANGED <<instance, created, loggerOptions, options,
                   enabledLogLevels, httpOptions>>
    /\ UNCHANGED profilerVars

\* the handler of request n emits its response: the tap's next handler
tapNext(n, response, randomValue) ==
    /\ n \in DOMAIN requests
    /\ requests[n].pc = "handling"
    /\ IF requests[n].tapped
       THEN LET statusCode == getStatusCode(response)
            IN  structuredWith(httpOptions.logAllRequests,
                    ResponseLevel(statusCode), randomValue,
                    StructuredEntry(ResponseLevel(statusCode), "response",
                        n, requests[n].correlationId, Some(statusCode),
                        requestContext, InFlight))
       ELSE UNCHANGED <<entries, logCounter, call>>
    /\ requests' = [requests EXCEPT ![n].pc = "done"]
    /\ UNCHANGED <<instance, created, loggerOptions, options,
                   enabledLogLevels, httpOptions, requestContext>>
    /\ UNCHANGED profilerVars

\* the handler of request n raises: the tap's error handler, which ends
\* with this.logger.clearRequestContext()
tapError(n, err, randomValue) ==
    /\ n \in DOMAIN requests
    /\ requests[n].pc = "handling"
    /\ IF requests[n].tapped
       THEN LET statusCode == getErrorStatusCode(err)
            IN  /\ structuredWith(httpOptions.logErrors, "error",
                      randomValue,
                      StructuredEntry("error", "error", n,
                          requests[n].correlationId, Some(statusCode),
                          requestContext, InFlight))
                /\ requestContext' = None
       ELSE UNCHANGED <<entries, logCounter, call, requestContext>>
    /\ requests' = [requests EXCEPT ![n].pc = "failed"]
    /\ UNCHANGED <<instance, created, loggerOptions, options,
                   enabledLogLevels, httpOptions>>
    /\ UNCHANGED profilerVars

\* entries logged by code that belongs to no request
Outside == {k \in DOMAIN entries : entries[k].request = 0}

\* structured(level, ...) called by code outside the interceptor
structuredOutside(level, randomValue) ==
    /\ instance # 0
    /\ Cardinality(Outside) < MaxOutside
    /\ structuredWith(TRUE, level, randomValue,
          StructuredEntry(level, "outside", 0, None, None, requestContext,
                          InFlight))
    /\ UNCHANGED <<instance, created, loggerOptions, options,
                   enabledLogLevels, httpOptions, requestContext, requests>>
    /\ UNCHANGED profilerVars

\* PerformanceInterceptor.  The handler's observable emits any number of
\* values and then ends with an error or by completing; the interceptor
\* taps it with a next and an error handler.
Subscribed(i) == observables[i].pc = "subscribed"

\* intercept(context, next) up to the return of the piped observable
PerformanceInterceptor_intercept(isHttp, name, pv, usage, randomValue) ==
    /\ Len(observables) < MaxRequests
    /\ IF ~isHttp
       THEN /\ observables' = Append(observables,
                 [tapped |-> FALSE, profileId |-> NullId,
                  pc |-> "subscribed", emissions |-> 0, stops |-> 0])
            /\ instance # 0
            /\ call' = NoCall("intercept")
            /\ UNCHANGED <<instance, created, loggerOptions, options,
                           enabledLogLevels, logCounter>>
            /\ UNCHANGED profilerVars
       ELSE /\ YuuLogService_startProfile(name, Some("HTTP Request"), pv,
                                          usage, randomValue)
            /\ observables' = Append(observables,
                 [tapped |-> TRUE, profileId |-> call'.ret[1],
                  pc |-> "subscribed", emissions |-> 0, stops |-> 0])

\* what a handler of the tap does with the profile: the call
\* this.logger.stopProfile(profileId)
TapStops(i, endUsage, childUsage, randomValue) ==
    IF observables[i].tapped
    THEN YuuLogService_stopProfile(observables[i].profileId, TRUE,
                                   endUsage, childUsage, randomValue)
    ELSE /\ call' = NoCall("none")
         /\ UNCHANGED <<instance, created, loggerOptions, options,
                        enabledLogLevels, logCounter>>
         /\ UNCHANGED profilerVars

\* the calls of stopProfile made so far on behalf of request i, counting
\* those with an id only
Stopped(i) ==
    IF observables[i].tapped /\ observables[i].profileId # NullId
    THEN observables[i].stops + 1
    ELSE observables[i].stops

\* the observable emits a value: the tap's next handler
PerformanceInterceptor_next(i, endUsage, childUsage, randomValue) ==
    /\ i \in DOMAIN observables
    /\ Subscribed(i)
    /\ observables[i].emissions < MaxEmissions
    /\ TapStops(i, endUsage, childUsage, randomValue)
    /\ observables' = [observables EXCEPT ![i].emissions = @ + 1,
                                          ![i].stops = Stopped(i)]

\* the observable ends with an error: the tap's error handler
PerformanceInterceptor_error(i, endUsage, childUsage, randomValue) ==
    /\ i \in DOMAIN observables
    /\ Subscribed(i)
    /\ TapStops(i, endUsage, childUsage, randomValue)
    /\ observables' = [observables EXCEPT ![i].pc = "errored",
                                          ![i].stops = Stopped(i)]

\* the observable completes: the tap has no handler for it
PerformanceInterceptor_complete(i) ==
    /\ i \in DOMAIN observables
    /\ Subscribed(i)
    /\ observables' = [observables EXCEPT ![i].pc = "completed"]
    /\ call' = NoCall("none")
    /\ UNCHANGED <<instance, created, loggerOptions, options,
                   enabledLogLevels, logCounter>>
    /\ UNCHANGED profilerVars

\* profileAsyncIterator.  The body of the generator runs when the consumer
\* asks for a value: it starts the main profile and asks the source for an
\* item ("pulling"); with an item it starts the iteration profile and is
\* suspended at `yield` ("yielded") until the consumer asks again, or ends
\* the generator there with return() or throw().
Pulling(g) == iterators[g].pc = "pulling"
Yielded(g) == iterators[g].pc = "yielded"

\* the ids among those returned that name a profile
Ids(ret) == {ret[1]} \ {NullId}

\* the first next(): startProfile(operationName), then the loop is entered
profileAsyncIterator(name, randomValue, usage) ==
    /\ Len(iterators) < MaxIterators
    /\ startProfile(name, None, randomValue, usage)
    /\ iterators' = Append(iterators,
          [mainProfileId |-> last'.ret[1], iterProfileId |-> NullId,
           opened |-> Ids(last'.ret), pc |-> "pulling", ended |-> None])

\* the source hands over an item: startChildProfile(mainProfileId, ...),
\* then `yield item`
SourceYields(g, name, randomValue, usage) ==
    /\ g \in DOMAIN iterators
    /\ Pulling(g)
    /\ startChildProfile(iterators[g].mainProfileId, name, randomValue,
                         usage)
    /\ iterators' = [iterators EXCEPT
          ![g].iterProfileId = last'.ret[1],
          ![g].opened = @ \cup Ids(last'.ret),
          ![g].pc = "yielded"]

\* the consumer asks for the next value: the body goes on after the yield
\* with stopProfile(iterProfileId) and asks the source again
Resume(g, endUsage, childUsage) ==
    /\ g \in DOMAIN iterators
    /\ Yielded(g)
    /\ stopProfile(iterators[g].iterProfileId, endUsage, childUsage)
    /\ iterators' = [iterators EXCEPT ![g].pc = "pulling"]

\* the finally block: stopProfile(mainProfileId)
Finally(g, how, endUsage, childUsage) ==
    /\ stopProfile(iterators[g].mainProfileId, endUsage, childUsage)
    /\ iterators' = [iterators EXCEPT ![g].pc = "ended",
                                      ![g].ended = Some(how)]

\* the source is exhausted, or raises: the loop is left
SourceEnds(g, how, endUsage, childUsage) ==
    /\ g \in DOMAIN iterators
    /\ Pulling(g)
    /\ how \in {"exhausted", "error"}
    /\ Finally(g, how, endUsage, childUsage)

\* the consumer leaves its loop early (return()) or throws into the
\* generator: the body is left at the yield
Abandon(g, how, endUsage, childUsage) ==
    /\ g \in DOMAIN iterators
    /\ Yielded(g)
    /\ how \in {"return", "throw"}
    /\ Finally(g, how, endUsage, childUsage)

\* nothing of the clients has run
NoClients ==
    /\ invocations = <<>>
    /\ requestContext = None
    /\ httpOptions = DEFAULT_OPTIONS
    /\ requests = <<>>
    /\ entries = <<>>
    /\ observables = <<>>
    /\ iterators = <<>>

\* the state of the class before any service object exists, and no report
\* made
NoService ==
    /\ instance = 0
    /\ created = 0
    /\ loggerOptions = defaultOptions
    /\ options = defaultOptions
    /\ enabledLogLevels = defaultOptions.logLevels[1]
    /\ logCounter = ZeroCounter
    /\ call = NoCall("new")
    /\ heap = <<>>
    /\ reported = NoProfile
    /\ report = NoReport
    /\ NoClients
    /\ NoSink

\* ------------------------------------------------------------ specification
Init ==
    /\ sampling = Some(defaultSampling)
    /\ activeProfiles = {}
    /\ profiles = <<>>
    /\ performanceMetrics = <<>>
    /\ nextMeasure = 1
    /\ now = 0
    /\ last = [op |-> "new", arg |-> 0, ret |-> None]
    /\ NoService

Next ==
    \/ Tick /\ UNCHANGED aboveProfiler
    \/ \E opt \in OptionInputs :
         setOptions(opt) /\ UNCHANGED aboveProfiler
    \/ \E name \in Names, ctx \in Contexts, v \in RandomDraws,
          usage \in Usages :
            startProfile(name, ctx, v, usage) /\ UNCHANGED aboveProfiler
    \/ \E parentId \in IdArgs, name \in Names, v \in RandomDraws,
          usage \in Usages :
            startChildProfile(parentId, name, v, usage)
              /\ UNCHANGED aboveProfiler
    \/ \E id \in IdArgs, endUsage \in Usages :
         \E childUsage \in [ChildReads(id) -> Usages] :
              stopProfile(id, endUsage, childUsage)
                /\ UNCHANGED aboveProfiler
    \/ \E name \in Names : startMeasure(name) /\ UNCHANGED aboveProfiler
    \/ \E name \in Names : stopMeasure(name) /\ UNCHANGED aboveProfiler
    \/ \E optName \in ClearArgs :
         clearPerformanceMetrics(optName) /\ UNCHANGED aboveProfiler

Spec == Init /\ [][Next]_vars

\* The statistics as a function of the history: the store starts with any
\* history of finished and unfinished measurements under the name "A" (the
\* tests put such histories into the map directly) and is then queried.
Durations == {0, 2, 1500, 90000}
OptDurations == {None} \cup {Some(d) : d \in Durations}

HistoryOf(ds) ==
    [i \in 1..Len(ds) |->
        [obj |-> i, operationName |-> "A", startTime |-> 0,
         endTime |-> ds[i], duration |-> ds[i]]]

InitStats ==
    /\ sampling = Some(defaultSampling)
    /\ activeProfiles = {}
    /\ profiles = <<>>
    /\ \E n \in 0..MaxHistory : \E ds \in [1..n -> OptDurations] :
          /\ performanceMetrics = ("A" :> HistoryOf(ds))
          /\ nextMeasure = n + 1
    /\ now = 0
    /\ last = [op |-> "new", arg |-> 0, ret |-> None]
    /\ NoService

NextStats ==
    \E name \in Names : getPerformanceStats(name) /\ UNCHANGED aboveProfiler

SpecStats == InitStats /\ [][NextStats]_vars

\* The class and its instances: the class starts without an instance;
\* objects come from getLogger and from the constructor.
NextSingleton ==
    \/ getLogger /\ UNCHANGED aboveLogger
    \/ \E opts \in YuuLogOptions : constructor(opts) /\ UNCHANGED aboveLogger
    \/ \E opts \in YuuLogOptions : configure(opts) /\ UNCHANGED aboveLogger

SpecSingleton == Init /\ [][NextSingleton]_vars

\* a step of the profiler made without going through the service
Direct(A) ==
    /\ A
    /\ call' = NoCall("profiler")
    /\ UNCHANGED <<instance, created, loggerOptions, options,
                   enabledLogLevels, logCounter>>
    /\ UNCHANGED aboveService

\* The service as a logger: the state after the first getLogger(), then
\* reconfigured and logged to.
InitService ==
    /\ sampling = defaultOptions.sampling
    /\ activeProfiles = {}
    /\ profiles = <<>>
    /\ performanceMetrics = <<>>
    /\ nextMeasure = 1
    /\ now = 0
    /\ last = [op |-> "setOptions", arg |-> defaultOptions.sampling,
               ret |-> None]
    /\ instance = 1
    /\ created = 1
    /\ loggerOptions = defaultOptions
    /\ options = defaultOptions
    /\ enabledLogLevels = defaultOptions.logLevels[1]
    /\ logCounter = ZeroCounter
    /\ call = [NoCall("getLogger") EXCEPT !.ret = Some(1)]
    /\ heap = <<>>
    /\ reported = NoProfile
    /\ report = NoReport
    /\ NoClients
    /\ SinkOf(options)

NextService ==
    \/ \E opts \in YuuLogOptions : configure(opts) /\ UNCHANGED aboveLogger
    \/ \E msg \in Messages, v \in RandomDraws :
         log(msg, v) /\ UNCHANGED aboveService
    \/ \E msg \in Messages, v \in RandomDraws :
         error(msg, v) /\ UNCHANGED aboveService
    \/ \E msg \in Messages, v \in RandomDraws :
         warn(msg, v) /\ UNCHANGED aboveService
    \/ \E msg \in Messages, v \in RandomDraws :
         debug(msg, v) /\ UNCHANGED aboveService
    \/ \E msg \in Messages, v \in RandomDraws :
         verbose(msg, v) /\ UNCHANGED aboveService
    \/ \E level \in LogLevels, v \in RandomDraws :
         structured(level, v) /\ UNCHANGED aboveService
    \/ getLogStats /\ UNCHANGED aboveService
    \/ resetLogCounters /\ UNCHANGED aboveService
    \/ \E name \in Names, ctx \in Contexts, pv \in RandomDraws,
          usage \in Usages, v \in RandomDraws :
            /\ Objects < MaxServiceObjects
            /\ YuuLogService_startProfile(name, ctx, pv, usage, v)
            /\ UNCHANGED aboveService
    \/ \E opt \in OptionInputs : Direct(setOptions(opt))

SpecService == InitService /\ [][NextService]_vars

\* The service over its profiler: a service constructed with its levels
\* and its general rate chosen, then measuring and profiling.
InitProfiling ==
    /\ activeProfiles = {}
    /\ profiles = <<>>
    /\ performanceMetrics = <<>>
    /\ nextMeasure = 1
    /\ now = 0
    /\ instance = 1
    /\ created = 1
    /\ loggerOptions = defaultOptions
    /\ \E opts \in YuuLogOptions :
          /\ opts.sampling # None =>
               /\ opts.sampling[1].profileSamplingRate = None
               /\ opts.sampling[1].alwaysLogErrors = None
               /\ opts.sampling[1].generalSamplingRate = Some(0)
          /\ options = Spread(defaultOptions, opts)
          /\ sampling = options.sampling
          /\ last = [op |-> "setOptions", arg |-> options.sampling,
                     ret |-> None]
          /\ enabledLogLevels = options.logLevels[1]
          /\ call = [NoCall("constructor") EXCEPT !.arg = Some(opts),
                                                   !.ret = Some(1)]
    /\ logCounter = ZeroCounter
    /\ heap = <<>>
    /\ reported = NoProfile
    /\ report = NoReport
    /\ NoClients
    /\ SinkOf(options)

NextProfiling ==
    \/ Direct(Tick)
    \/ \E name \in Names, v \in RandomDraws :
          /\ Objects < MaxServiceObjects
          /\ YuuLogService_startMeasure(name, v)
          /\ UNCHANGED aboveService
    \/ \E name \in Names, logResults \in BOOLEAN,
          v \in RandomDraws, v2 \in RandomDraws :
            /\ YuuLogService_stopMeasure(name, logResults, v, v2)
            /\ UNCHANGED aboveService
    \/ \E name \in Names, ctx \in Contexts, pv \in RandomDraws,
          usage \in Usages, v \in RandomDraws :
            /\ Objects < MaxServiceObjects
            /\ YuuLogService_startProfile(name, ctx, pv, usage, v)
            /\ UNCHANGED aboveService
    \/ \E id \in IdArgs, logResults \in BOOLEAN, endUsage \in Usages,
          v \in RandomDraws :
          \E childUsage \in [ChildReads(id) -> Usages] :
            /\ YuuLogService_stopProfile(id, logResults, endUsage,
                                         childUsage, v)
            /\ UNCHANGED aboveService

SpecProfiling == InitProfiling /\ [][NextProfiling]_vars

\* The report as a function of the metadata: a profile with any metadata
\* graph is handed to createPerformanceReport.
InitReport ==
    /\ sampling = Some(defaultSampling)
    /\ activeProfiles = {}
    /\ profiles = <<>>
    /\ performanceMetrics = <<>>
    /\ nextMeasure = 1
    /\ now = 0
    /\ last = [op |-> "new", arg |-> 0, ret |-> None]
    /\ instance = 0
    /\ created = 0
    /\ loggerOptions = defaultOptions
    /\ options = defaultOptions
    /\ enabledLogLevels = defaultOptions.logLevels[1]
    /\ logCounter = ZeroCounter
    /\ call = NoCall("new")
    /\ heap \in Heaps
    /\ reported \in ReportedProfiles
    /\ report = NoReport
    /\ NoClients
    /\ NoSink

NextReport == createPerformanceReport

SpecReport == InitReport /\ [][NextReport]_vars

\* Wrapped functions: calls of them interleave with the clock, with
\* reconfiguration and with other code stopping profiles.
NextWrapped ==
    \/ \E kind \in WrappedKinds, name \in Names, v \in RandomDraws,
          usage \in Usages :
            /\ Invoke(kind, name, v, usage)
            /\ UNCHANGED besideWrapped
    \/ \E i \in 1..MaxCalls, outcome \in {"returned", "thrown",
                                           "resolved", "rejected"},
          endUsage \in Usages :
          \E childUsage \in [ChildReads(IF i \in DOMAIN invocations
                                        THEN invocations[i].profileId
                                        ELSE NullId) -> Usages] :
            /\ Complete(i, outcome, endUsage, childUsage)
            /\ UNCHANGED besideWrapped
    \/ /\ ~SyncRunning
       /\ Tick
       /\ UNCHANGED aboveProfiler
    \/ \E opt \in OptionInputs :
         /\ ~SyncRunning
         /\ setOptions(opt)
         /\ UNCHANGED aboveProfiler
    \/ \E id \in IdArgs, endUsage \in Usages :
         \E childUsage \in [ChildReads(id) -> Usages] :
            /\ ~SyncRunning
            /\ stopProfile(id, endUsage, childUsage)
            /\ UNCHANGED aboveProfiler

SpecWrapped == Init /\ [][NextWrapped]_vars

\* The HTTP logger interceptor over the shared service: requests arrive,
\* their handlers respond or raise in any order, other code logs.
InitHttp ==
    /\ sampling = defaultOptions.sampling
    /\ activeProfiles = {}
    /\ profiles = <<>>
    /\ performanceMetrics = <<>>
    /\ nextMeasure = 1
    /\ now = 0
    /\ last = [op |-> "setOptions", arg |-> defaultOptions.sampling,
               ret |-> None]
    /\ instance = 1
    /\ created = 1
    /\ loggerOptions = defaultOptions
    /\ options = defaultOptions
    /\ enabledLogLevels = defaultOptions.logLevels[1]
    /\ logCounter = ZeroCounter
    /\ call = [NoCall("getLogger") EXCEPT !.ret = Some(1)]
    /\ heap = <<>>
    /\ reported = NoProfile
    /\ report = NoReport
    /\ invocations = <<>>
    /\ requestContext = None
    /\ httpOptions \in HttpLoggerOptions
    /\ requests = <<>>
    /\ entries = <<>>
    /\ observables = <<>>
    /\ iterators = <<>>
    /\ SinkOf(options)

aboveHttp == <<reportVars, invocations, observables, iterators, sinkVars>>

NextHttp ==
    \/ \E isHttp \in BOOLEAN, excluded \in BOOLEAN, header \in HeaderValues,
          existing \in ExistingIds, v \in RandomDraws :
            /\ intercept(isHttp, excluded, header, existing, v)
            /\ UNCHANGED aboveHttp
    \/ \E n \in 1..MaxRequests, response \in Responses, v \in RandomDraws :
            /\ tapNext(n, response, v)
            /\ UNCHANGED aboveHttp
    \/ \E n \in 1..MaxRequests, err \in Errors, v \in RandomDraws :
            /\ tapError(n, err, v)
            /\ UNCHANGED aboveHttp
    \/ \E level \in LogLevels, v \in RandomDraws :
            /\ structuredOutside(level, v)
            /\ UNCHANGED aboveHttp

SpecHttp == InitHttp /\ [][NextHttp]_vars

\* Two transport managers, one built with new and one with create from the
\* same options, given the same calls.
TransportInputs == {None} \cup {Some(o) : o \in TransportOptions}

InitTransports ==
    /\ sampling = Some(defaultSampling)
    /\ activeProfiles = {}
    /\ profiles = <<>>
    /\ performanceMetrics = <<>>
    /\ nextMeasure = 1
    /\ now = 0
    /\ last = [op |-> "new", arg |-> 0, ret |-> None]
    /\ instance = 0
    /\ created = 0
    /\ loggerOptions = defaultOptions
    /\ options = defaultOptions
    /\ enabledLogLevels = defaultOptions.logLevels[1]
    /\ logCounter = ZeroCounter
    /\ call = NoCall("new")
    /\ heap = <<>>
    /\ reported = NoProfile
    /\ report = NoReport
    /\ NoClients
    /\ \E opts \in TransportInputs :
          /\ transportManager = Some(TransportManager_new(opts))
          /\ twin = Some(TransportManager_create(opts))
    /\ transportCall = NoTransportCall
    /\ loggerLevel = ""

belowTransports == <<profilerVars, serviceVars, reportVars, clientVars>>

NextTransports ==
    \/ Call_getActiveTransports /\ UNCHANGED belowTransports
    \/ Call_getFileTransports /\ UNCHANGED belowTransports
    \/ \E config \in FileTransportConfigs :
         Call_configureFileTransport(config) /\ UNCHANGED belowTransports
    \/ \E config \in FileTransportConfigs :
         Call_configureErrorFileTransport(config)
            /\ UNCHANGED belowTransports
    \/ \E optName \in TransportNames, transport \in CustomTransports,
          uuid \in GeneratedNames :
            /\ Call_addCustomTransport(optName, transport, uuid)
            /\ UNCHANGED belowTransports
    \/ \E transportName \in {"dummy"} \cup GeneratedNames :
            /\ Call_removeCustomTransport(transportName)
            /\ UNCHANGED belowTransports

SpecTransports == InitTransports /\ [][NextTransports]_vars

\* The performance interceptor over a service that logs errors only and
\* whose profiler samples every profile or none.
InitPerformance ==
    /\ activeProfiles = {}
    /\ profiles = <<>>
    /\ performanceMetrics = <<>>
    /\ nextMeasure = 1
    /\ now = 0
    /\ instance = 1
    /\ created = 1
    /\ loggerOptions = defaultOptions
    /\ \E opts \in YuuLogOptions :
          /\ opts.logLevels = Some({"error"})
          /\ opts.sampling # None =>
               opts.sampling[1].profileSamplingRate = Some(0)
          /\ options = Spread(defaultOptions, opts)
          /\ sampling = options.sampling
          /\ last = [op |-> "setOptions", arg |-> options.sampling,
                     ret |-> None]
          /\ enabledLogLevels = options.logLevels[1]
          /\ call = [NoCall("constructor") EXCEPT !.arg = Some(opts),
                                                   !.ret = Some(1)]
    /\ logCounter = ZeroCounter
    /\ heap = <<>>
    /\ reported = NoProfile
    /\ report = NoReport
    /\ NoClients
    /\ SinkOf(options)

abovePerformance == <<reportVars, invocations, httpVars, iterators, sinkVars>>

NextPerformance ==
    \/ \E isHttp \in BOOLEAN, name \in Names, pv \in RandomDraws,
          usage \in Usages, v \in RandomDraws :
            /\ PerformanceInterceptor_intercept(isHttp, name, pv, usage, v)
            /\ UNCHANGED abovePerformance
    \/ \E i \in 1..MaxRequests, endUsage \in Usages, v \in RandomDraws :
            /\ PerformanceInterceptor_next(i, endUsage, <<>>, v)
            /\ UNCHANGED abovePerformance
    \/ \E i \in 1..MaxRequests, endUsage \in Usages, v \in RandomDraws :
            /\ PerformanceInterceptor_error(i, endUsage, <<>>, v)
            /\ UNCHANGED abovePerformance
    \/ \E i \in 1..MaxRequests :
            /\ PerformanceInterceptor_complete(i)
            /\ UNCHANGED abovePerformance
    \/ Direct(Tick)

SpecPerformance == InitPerformance /\ [][NextPerformance]_vars

\* Generators made by profileAsyncIterator, consumed while the clock runs
\* and the sampling options are changed.
besideIterators == <<serviceVars, reportVars, invocations, httpVars,
                     observables, sinkVars>>

NextIterator ==
    \/ \E name \in Names, v \in RandomDraws, usage \in Usages :
            /\ profileAsyncIterator(name, v, usage)
            /\ UNCHANGED besideIterators
    \/ \E g \in 1..MaxIterators, name \in Names, v \in RandomDraws,
          usage \in Usages :
            /\ SourceYields(g, name, v, usage)
            /\ UNCHANGED besideIterators
    \/ \E g \in 1..MaxIterators, endUsage \in Usages :
          \E childUsage \in [ChildReads(IF g \in DOMAIN iterators
                                        THEN iterators[g].iterProfileId
                                        ELSE NullId) -> Usages] :
            /\ Resume(g, endUsage, childUsage)
            /\ UNCHANGED besideIterators
    \/ \E g \in 1..MaxIterators, how \in {"exhausted", "error"},
          endUsage \in Usages :
          \E childUsage \in [ChildReads(IF g \in DOMAIN iterators
                                        THEN iterators[g].mainProfileId
                                        ELSE NullId) -> Usages] :
            /\ SourceEnds(g, how, endUsage, childUsage)
            /\ UNCHANGED besideIterators
    \/ \E g \in 1..MaxIterators, how \in {"return", "throw"},
          endUsage \in Usages :
          \E childUsage \in [ChildReads(IF g \in DOMAIN iterators
                                        THEN iterators[g].mainProfileId
                                        ELSE NullId) -> Usages] :
            /\ Abandon(g, how, endUsage, childUsage)
            /\ UNCHANGED besideIterators
    \/ Tick /\ UNCHANGED aboveProfiler
    \/ \E opt \in OptionInputs :
         setOptions(opt) /\ UNCHANGED aboveProfiler

SpecIterator == Init /\ [][NextIterator]_vars

\* ------------------------------------------------------------ properties
Children(p) == SeqToSet(profiles[p].children)

Finished(p) == profiles[p].endTime # None

RECURSIVE Descendants(_)
\* the profiles reachable from p through children links
Descendants(p) ==
    Children(p) \cup UNION {Descendants(c) : c \in Children(p)}

IsPrefix(s, t) == Len(s) <= Len(t) /\ SubSeq(t, 1, Len(s)) = s

\* the entries of a name's history that have not been finished
OpenMeasures(name) ==
    IF name \in DOMAIN performanceMetrics
    THEN {m \in SeqToSet(performanceMetrics[name]) : m.endTime = None}
    ELSE {}

\* C1: when an active profile p has a direct child c that is still open,
\* stopProfile(p) returns p's record, the record's children still list c,
\* c's endTime equals p's endTime, and neither p nor c is active afterwards.
C1_NestingClosure ==
    [][\A p \in activeProfiles : \A c \in Children(p) :
         (/\ profiles[c].endTime = None
          /\ last'.op = "stopProfile"
          /\ last'.arg = p)
         => /\ last'.ret = Some(p)
            /\ c \in SeqToSet(profiles'[p].children)
            /\ profiles'[p].endTime # None
            /\ profiles'[c].endTime = profiles'[p].endTime
            /\ p \notin activeProfiles'
            /\ c \notin activeProfiles']_vars

\* a parent was stopped after its child had been open for a while, and the
\* child ended with it
C1_Witness ==
    /\ last.op = "stopProfile"
    /\ last.ret # None
    /\ \E c \in Children(last.ret[1]) :
         /\ profiles[c].endTime = profiles[last.ret[1]].endTime
         /\ profiles[c].startTime < profiles[c].endTime[1]
         /\ c \notin activeProfiles

\* C2: every profile in the active table has endTime and duration absent.
C2_ActiveHaveNoEnd ==
    \A id \in activeProfiles :
        profiles[id].endTime = None /\ profiles[id].duration = None

\* a profile is still active although the parent it is attached to has ended
C2_Witness ==
    \E p \in Allocated : \E c \in Children(p) :
        Finished(p) /\ c \in activeProfiles

\* C3: every profile reachable through children links from a finished
\* profile has endTime present and is not in the active table.
C3_NoDanglingDescendant ==
    \A p \in Allocated :
        Finished(p) =>
            \A d \in Descendants(p) : Finished(d) /\ d \notin activeProfiles

\* C4: startChildProfile returns a non-null id that is in the active table,
\* whatever parentId and whatever the sampling configuration and draw.
C4_ChildIdConcrete ==
    last.op = "startChildProfile" =>
        last.ret # Some(NullId) /\ last.ret[1] \in activeProfiles

\* C5: a profile that has left the active table never re-enters it, a later
\* stopProfile on its id returns absent, and its endTime, duration and
\* resource deltas never change again.
C5_NoReactivation ==
    [][\A id \in Allocated :
         id \notin activeProfiles
         => /\ id \notin activeProfiles'
            /\ profiles'[id].endTime = profiles[id].endTime
            /\ profiles'[id].duration = profiles[id].duration
            /\ profiles'[id].usageDiff = profiles[id].usageDiff
            /\ (last'.op = "stopProfile" /\ last'.arg = id
                  => last'.ret = None)]_vars

\* stopProfile was called on a finished profile, later than its end
C5_Witness ==
    /\ last.op = "stopProfile"
    /\ last.arg \in Allocated
    /\ last.ret = None
    /\ Finished(last.arg)
    /\ profiles[last.arg].endTime[1] < now

\* C6: stopProfile(id) on an active id returns the record of id and leaves
\* every profile that is neither id nor attached beneath id as it was, in
\* the heap and in the active table.
C6_IndependentStop ==
    [][\A id \in activeProfiles :
         (last'.op = "stopProfile" /\ last'.arg = id)
         => /\ last'.ret = Some(id)
            /\ \A q \in Allocated \ ({id} \cup Descendants(id)) :
                 /\ profiles'[q] = profiles[q]
                 /\ (q \in activeProfiles') = (q \in activeProfiles)]_vars

\* of two unrelated active profiles with the same operation name, the one
\* started first was stopped first and the other is still active
C6_Witness ==
    /\ last.op = "stopProfile"
    /\ last.ret # None
    /\ \E q \in activeProfiles :
         /\ q > last.ret[1]
         /\ q \notin Descendants(last.ret[1])
         /\ profiles[q].operationName = profiles[last.ret[1]].operationName
         /\ profiles[q].startTime < now

\* C7: a children sequence only grows at its end, and lists the children in
\* the order they were started (ids are handed out in start order).
C7_ChildrenStartOrder ==
    [][\A p \in Allocated :
         /\ IsPrefix(profiles[p].children, profiles'[p].children)
         /\ \A i, j \in DOMAIN profiles'[p].children :
              i < j => /\ profiles'[p].children[i] < profiles'[p].children[j]
                       /\ profiles'[profiles'[p].children[i]].startTime
                            <= profiles'[profiles'[p].children[j]].startTime]_vars

\* a parent has two children and the one started second ended first
C7_Witness ==
    \E p \in Allocated :
        /\ Len(profiles[p].children) = 2
        /\ Finished(profiles[p].children[1])
        /\ Finished(profiles[p].children[2])
        /\ profiles[profiles[p].children[2]].endTime[1]
             < profiles[profiles[p].children[1]].endTime[1]

ProfileRate ==
    LET s == IF sampling = None THEN defaultSampling ELSE sampling[1]
    IN  OrElse(s.profileSamplingRate, RateScale)

\* C8: a startProfile that returns null leaves the active table, the
\* profiles and every measurement history as they were; and with a profile
\* sampling rate of zero startProfile returns null.
C8_RejectedStartIsNoOp ==
    [][last'.op = "startProfile"
         => /\ (ProfileRate = 0 => last'.ret = Some(NullId))
            /\ (last'.ret = Some(NullId)
                  => UNCHANGED <<activeProfiles, profiles,
                                 performanceMetrics>>)]_vars

\* a top-level profile was rejected while profiles were active and a
\* measurement was open
C8_Witness ==
    /\ last.op = "startProfile"
    /\ last.ret = Some(NullId)
    /\ activeProfiles # {}
    /\ \E n \in Names : OpenMeasures(n) # {}

\* C9: stopProfile with null or an id that is not active, and stopMeasure
\* with a name that has no open measurement, return absent and leave the
\* active table, the profiles and the measurement histories unchanged.
C9_AbsentIsNoOp ==
    [][/\ (last'.op = "stopProfile" /\ last'.arg \notin activeProfiles)
          => /\ last'.ret = None
             /\ UNCHANGED <<activeProfiles, profiles, performanceMetrics>>
       /\ (last'.op = "stopMeasure" /\ OpenMeasures(last'.arg) = {})
          => /\ last'.ret = None
             /\ UNCHANGED <<activeProfiles, profiles,
                            performanceMetrics>>]_vars

\* stopMeasure found nothing under a name while the other name had an open
\* measurement and a profile was active
C9_Witness ==
    /\ last.op = "stopMeasure"
    /\ last.ret = None
    /\ activeProfiles # {}
    /\ \E n \in Names \ {last.arg} : OpenMeasures(n) # {}

\* C10: stopMeasure(name) with open measurements under name returns the one
\* started last, finished, and leaves the other open ones in the history.
C10_StopMeasureLifo ==
    [][\A name \in Names :
         (/\ last'.op = "stopMeasure"
          /\ last'.arg = name
          /\ OpenMeasures(name) # {})
         => /\ last'.ret # None
            /\ \E m \in OpenMeasures(name) :
                 /\ \A o \in OpenMeasures(name) : o.obj <= m.obj
                 /\ last'.ret[1].obj = m.obj
                 /\ last'.ret[1].endTime = Some(now)
                 /\ last'.ret[1].duration = Some(now - m.startTime)
                 /\ {o \in SeqToSet(performanceMetrics'[name]) :
                        o.endTime = None}
                      = OpenMeasures(name) \ {m}]_vars

\* the second of two measurements of one name was returned while the first
\* is still open
C10_Witness ==
    /\ last.op = "stopMeasure"
    /\ last.ret # None
    /\ \E o \in OpenMeasures(last.arg) : o.obj < last.ret[1].obj

\* the store's statistics count for a name; no statistics counts as zero
StatsCount(pm, name) ==
    IF PerformanceStats(pm, name) = None THEN 0
    ELSE PerformanceStats(pm, name)[1].count

\* C11: a stopMeasure(name) that returns a measurement leaves stats(name)
\* defined with its count one higher, and startMeasure or a stopMeasure that
\* finds nothing leave the count as it was: without clear, the count is the
\* number of measurements stopMeasure has returned.
C11_FinishedStaysInHistory ==
    [][\A name \in Names :
         /\ (last'.op = "stopMeasure" /\ last'.arg = name /\ last'.ret # None)
            => /\ PerformanceStats(performanceMetrics', name) # None
               /\ StatsCount(performanceMetrics', name)
                    = StatsCount(performanceMetrics, name) + 1
         /\ (\/ last'.op = "startMeasure"
             \/ (last'.op = "stopMeasure" /\ last'.ret = None))
            => StatsCount(performanceMetrics', name)
                 = StatsCount(performanceMetrics, name)]_vars

\* the positions of the finished entries of a history
FinishedAt(h) == {i \in DOMAIN h : h[i].duration # None}

RECURSIVE SumOver(_, _)
SumOver(h, I) ==
    IF I = {} THEN 0
    ELSE LET i == CHOOSE x \in I : TRUE
         IN  h[i].duration[1] + SumOver(h, I \ {i})

\* C12: for a history with finished entries d1..dn (n >= 1) among any
\* unfinished ones, the statistics report count n, the sum, the sum over n,
\* the smallest, the largest and the last finished duration, each as
\* formatDuration prints it.
C12_StatsAggregate ==
    (last.op = "getPerformanceStats" /\ last.arg \in DOMAIN performanceMetrics
       /\ FinishedAt(performanceMetrics[last.arg]) # {})
    => LET h   == performanceMetrics[last.arg]
           I   == FinishedAt(h)
           n   == Cardinality(I)
           sum == SumOver(h, I)
           lo  == CHOOSE i \in I : \A j \in I :
                     h[i].duration[1] <= h[j].duration[1]
           hi  == CHOOSE i \in I : \A j \in I :
                     h[i].duration[1] >= h[j].duration[1]
           end == CHOOSE i \in I : \A j \in I : j <= i
       IN  /\ last.ret # None
           /\ last.ret[1].count = n
           /\ last.ret[1].totalDuration = formatDuration(sum, 1)
           /\ last.ret[1].averageDuration = formatDuration(sum, n)
           /\ last.ret[1].minDuration = formatDuration(h[lo].duration[1], 1)
           /\ last.ret[1].maxDuration = formatDuration(h[hi].duration[1], 1)
           /\ last.ret[1].lastMeasurement
                = formatDuration(h[end].duration[1], 1)

\* statistics were taken of a history whose finished durations differ, with
\* an unfinished entry after the last finished one
C12_Witness ==
    /\ last.op = "getPerformanceStats"
    /\ last.ret # None
    /\ last.ret[1].count = 2
    /\ last.ret[1].minDuration # last.ret[1].maxDuration
    /\ last.ret[1].lastMeasurement # last.ret[1].maxDuration
    /\ Len(performanceMetrics[last.arg]) = 3
    /\ performanceMetrics[last.arg][3].duration = None

\* C13: clearPerformanceMetrics(name) removes the history of name and leaves
\* every other history, the profiles and the active table as they were;
\* without a name it removes every history and leaves the profiles and the
\* active table as they were.
C13_ClearFrame ==
    [][last'.op = "clearPerformanceMetrics"
         => /\ UNCHANGED <<activeProfiles, profiles>>
            /\ IF last'.arg = None
               THEN performanceMetrics' = <<>>
               ELSE /\ last'.arg[1] \notin DOMAIN performanceMetrics'
                    /\ \A n \in DOMAIN performanceMetrics \ {last'.arg[1]} :
                         /\ n \in DOMAIN performanceMetrics'
                         /\ performanceMetrics'[n] = performanceMetrics[n]]_vars

\* the calls that go through the level gate and the sampling gate
LogOps == {"log", "error", "warn", "debug", "verbose", "structured"}

\* the configuration the service gate reads, and what it yields
ServiceSampling ==
    IF options.sampling = None THEN defaultSampling ELSE options.sampling[1]
GeneralRate == OrElse(ServiceSampling.generalSamplingRate, RateScale)
ErrorsAlways == OrElse(ServiceSampling.alwaysLogErrors, FALSE)

\* a logging call was let through by the gates: it was counted
Admitted == call.forwarded # <<>> \/ call.raised

RateOf(c, field) == OrElse(c[field], RateScale)
AdmitsLog(c, level, v) ==
    \/ level = "error" /\ OrElse(c.alwaysLogErrors, FALSE)
    \/ RateOf(c, "generalSamplingRate") >= RateScale
    \/ v < RateOf(c, "generalSamplingRate")
AdmitsProfile(c, v) ==
    \/ RateOf(c, "profileSamplingRate") >= RateScale
    \/ v < RateOf(c, "profileSamplingRate")

\* the sampling configuration the step just taken supplied, if it did:
\* configure(opts) with a sampling key, or setOptions on the profiler
SuppliedToService ==
    IF call.op = "configure" /\ call.arg[1].sampling # None
    THEN call.arg[1].sampling
    ELSE None
SuppliedToProfiler ==
    IF call.op = "profiler" /\ last.op = "setOptions" /\ last.arg # None
    THEN last.arg
    ELSE SuppliedToService

GateValues(smp) ==
    LET s == IF smp = None THEN defaultSampling ELSE smp[1]
    IN  [generalSamplingRate |-> OrElse(s.generalSamplingRate, RateScale),
         profileSamplingRate |-> OrElse(s.profileSamplingRate, RateScale),
         alwaysLogErrors     |-> OrElse(s.alwaysLogErrors, FALSE)]

\* C16: after setOptions(config) the gate's generalSamplingRate,
\* profileSamplingRate and alwaysLogErrors are those of config, with the
\* defaults for what config omits; nothing of the configuration in force
\* before the call remains.
C16_SetOptionsReplaces ==
    [][last'.op = "setOptions" =>
         GateValues(sampling') = GateValues(last'.arg)]_vars

\* C17: when the service's stopMeasure(name), or stopProfile(id) with an
\* id that is not null, finds no open entry, it returns nothing and one
\* warning-level entry is emitted; stopProfile(null) returns nothing and
\* emits no entry.
C17_MissingIsWarned ==
    /\ (call.op = "stopMeasure" /\ call.ret = None) =>
          call.forwarded = <<"warn">>
    /\ (call.op = "stopProfile" /\ call.arg # Some(NullId)
          /\ call.ret = None) =>
          call.forwarded = <<"warn">>
    /\ (call.op = "stopProfile" /\ call.arg = Some(NullId)) =>
          call.ret = None /\ call.forwarded = <<>>

\* C18: getLogger() returns YuuLogService.instance, so any two calls return
\* the same object exactly when the registered instance, once set, is
\* never replaced by whatever happens between them.
C18_OneInstance ==
    [][instance # 0 => instance' = instance]_vars

\* the sum of the five counters
CounterSum(counter) ==
    counter["error"] + counter["warn"] + counter["info"]
      + counter["verbose"] + counter["debug"]

\* C19: a log call at level L is forwarded to the sink and raises the
\* counter of L by one iff L is enabled and the sampling gate admits it;
\* otherwise nothing is forwarded and no counter changes; and the
\* totalLogs of getLogStats is the sum of the counters.
C19_CountedIffForwarded ==
    [][/\ call'.op \in LogOps =>
            IF /\ call'.level \in enabledLogLevels
               /\ AdmitsLog(ServiceSampling, call'.level, call'.draws[1])
            THEN /\ call'.forwarded = <<call'.level>>
                 /\ logCounter' =
                      [logCounter EXCEPT ![call'.level] = @ + 1]
            ELSE /\ call'.forwarded = <<>>
                 /\ logCounter' = logCounter
       /\ call'.op = "getLogStats" =>
            call'.ret[1].totalLogs = CounterSum(logCounter)]_vars

\* C20: createPerformanceReport returns a report for every profile, also
\* one whose metadata graph has a cycle: formatting the metadata does not
\* run past the stack and nothing is raised.
C20_ReportReturns ==
    report.op = "createPerformanceReport" => ~report.raised

\* C21: the header of a report, and each child line, shows the in-progress
\* marker iff the duration of that profile is absent; a duration that is
\* present, whatever its value, is shown formatted.
C21_MarkerIffAbsent ==
    (report.op = "createPerformanceReport" /\ ~report.raised) =>
        /\ report.durationText = None <=> reported.duration = None
        /\ \A i \in DOMAIN reported.children :
              report.childDurations[i] = None
                <=> reported.children[i].duration = None

\* C22: once a call of a function wrapped by profileFunction or
\* profileAsyncFunction has returned, thrown, resolved or rejected, the
\* profile opened for it is not active: the wrapper's last step takes that
\* profile out of the active table and nothing else, so a synchronous call
\* leaves the table as it was before the call; and the caller receives the
\* value or the error the function ended with.  This under every sampling
\* outcome.
C22_WrappedProfileClosed ==
    [][\A i \in DOMAIN invocations' :
          invocations'[i].pc = "done" =>
            /\ invocations'[i].profileId \notin activeProfiles'
            /\ invocations'[i].delivered =
                 Some(YieldOf(invocations'[i].outcome[1]))
            /\ (i \in DOMAIN invocations /\ Running(i)) =>
                 /\ activeProfiles' =
                      activeProfiles \ {invocations[i].profileId}
                 /\ invocations[i].kind = "sync" =>
                      activeProfiles' = invocations[i].before]_vars

\* a sampled call that threw and a call that was not sampled are both done
C22_Witness ==
    \E i \in DOMAIN invocations, j \in DOMAIN invocations :
       /\ invocations[i].pc = "done"
       /\ invocations[i].outcome \in {Some("thrown"), Some("rejected")}
       /\ invocations[i].profileId # NullId
       /\ invocations[j].pc = "done"
       /\ invocations[j].profileId = NullId

\* C23: while two requests are in flight through HttpLoggerInterceptor, an
\* entry logged on behalf of one of them carries that request's own
\* correlationId in data.requestContext, not the other request's.
C23_OwnCorrelationId ==
    \A k \in DOMAIN entries :
       LET e == entries[k]
       IN  (e.request # 0 /\ Cardinality(e.during) >= 2) =>
              e.requestContext = requests[e.request].correlationId

\* C24: the entry for a completed response is at info level when the
\* status code is 2xx or 3xx, at warn level when it is 4xx and at error
\* level when it is 5xx.
C24_LevelByStatusClass ==
    \A k \in DOMAIN entries :
       LET e == entries[k]
           s == e.statusCode[1]
       IN  e.kind = "response" =>
              /\ (s >= 200 /\ s < 400) => e.level = "info"
              /\ (s >= 400 /\ s < 500) => e.level = "warn"
              /\ (s >= 500 /\ s < 600) => e.level = "error"

\* C29: once the interceptor has finished with a request, whether its
\* handler responded or raised, the logger's request context does not hold
\* that request's correlationId (unless a request still in flight has the
\* same one), and an entry logged outside any request while none is in
\* flight carries no request context.
C29_ContextReleased ==
    /\ \A n \in DOMAIN requests :
          (/\ requests[n].tapped
           /\ requests[n].pc \in {"done", "failed"}
           /\ \A m \in InFlight :
                 requests[m].correlationId # requests[n].correlationId)
          => requestContext # requests[n].correlationId
    /\ \A k \in Outside :
          entries[k].during = {} => entries[k].requestContext = None

\* the custom transports in a list a manager handed out
CustomPart(list) ==
    SelectSeq(list, LAMBDA t : t.kind = "custom")
\* the list a manager must hand out as far as custom transports go
RegisteredTransports(m) ==
    [i \in DOMAIN m.customTransports |->
       Transport("custom", MapValues(m.customTransports)[i], "")]

\* a call that returned a defined list whose custom transports are the
\* ones manager m has registered
ListsRegistered(raised, ret, m) ==
    /\ ~raised
    /\ ret # None
    /\ CustomPart(ret[1]) = RegisteredTransports(m)

\* C25: whatever calls of addCustomTransport, removeCustomTransport,
\* configureFileTransport and configureErrorFileTransport a TransportManager
\* has received, getActiveTransports() returns a list whose custom
\* transports are exactly the ones registered at that moment.
C25_ActiveListsRegistered ==
    transportCall.op = "getActiveTransports" =>
       /\ ListsRegistered(transportCall.raised, transportCall.ret,
                          transportManager[1])
       /\ ListsRegistered(transportCall.twinRaised, transportCall.twinRet,
                          twin[1])

\* the part of C25 that concerns a manager built with new
ConstructedListsRegistered ==
    transportCall.op = "getActiveTransports" =>
       ListsRegistered(transportCall.raised, transportCall.ret,
                       transportManager[1])

\* C27: once configure({logLevels: L}) has been applied to an existing
\* instance, every level the service lets through is accepted by the
\* winston logger: the enabled levels, and so each entry counted and handed
\* on, are at or above the logger's level.
C27_EnabledLevelsReachSink ==
    instance # 0 =>
       /\ \A level \in enabledLogLevels : Accepts(loggerLevel, level)
       /\ \A i \in DOMAIN call.forwarded :
             Accepts(loggerLevel, call.forwarded[i])

\* C30: a manager built with TransportManager.create(options) answers
\* every call as one built with new TransportManager(options) does, and its
\* getActiveTransports() returns a defined list from the first call on.
C30_CreateBehavesAsNew ==
    /\ transportCall.twinRaised = transportCall.raised
    /\ transportCall.twinRet = transportCall.ret
    /\ transportCall.op = "getActiveTransports" =>
          transportCall.twinRet # None

\* C26: when the observable of a request PerformanceInterceptor profiles
\* has terminated, by an error or by completing, after any number of
\* values, the profile opened for the request has been stopped exactly
\* once and is not in the active table.
C26_StoppedOnceAtTermination ==
    \A i \in DOMAIN observables :
       (/\ observables[i].pc \in {"errored", "completed"}
        /\ observables[i].profileId # NullId)
       => /\ observables[i].stops = 1
          /\ observables[i].profileId \notin activeProfiles

\* C28: once a generator made by profileAsyncIterator has ended, because
\* the source was exhausted, the consumer left early or an error was
\* raised, none of the profiles it opened, the main one or one of an
\* iteration, is in the active table; under every sampling configuration.
C28_IteratorLeavesNothingActive ==
    \A g \in DOMAIN iterators :
       iterators[g].pc = "ended" =>
          iterators[g].opened \cap activeProfiles = {}

TypeOK ==
    /\ activeProfiles \subseteq Allocated
    /\ now \in 0..MaxTime
====
